---- MODULE Spec2Model ----
(***************************************************************************)
(* Rate limiting and quota engine of fingerprint_api:                      *)
(*   services/rate_limit_service.py   RateLimitService, UserQuota          *)
(*   middleware/rate_limiter.py       RateLimitMiddleware                  *)
(*                                                                         *)
(* Token amounts are Python floats in the source.  Every amount the code   *)
(* can produce from the inputs below is a multiple of 1/60 (costs are      *)
(* multiples of 1/2, a refill adds limit * seconds / 60), so an amount is  *)
(* kept exactly as [w, f] = w + f/60 with 0 <= f < 60; w alone would       *)
(* overflow TLC's integers for the unlimited tiers if scaled by 60.        *)
(***************************************************************************)
EXTENDS Integers, Sequences, FiniteSets, TLC

(***************************************************************************)
(* Program constants.                                                      *)
(***************************************************************************)
FreeMinuteLimit == 100
FreeMonthlyQuota == 50000
ProMinuteLimit == 1000
ProMonthlyQuota == 1000000
UnlimitedSentinel == 999999999
IpLimit == 30
IpWindowSeconds == 60
RefillSeconds == 60
MinuteDiv == 60
BurstNum == 3
BurstDen == 2
RetryAfterMinute == 60
RetryAfterMonthly == 86400
DaySeconds == 86400
ResetDays == 30
HttpTooManyRequests == 429
HttpOk == 200
HttpNotFound == 404
HttpServerError == 500
ResetSeconds == 60

(***************************************************************************)
(* Bounds of the model.                                                    *)
(***************************************************************************)
MaxCalls == 2
MaxTime == 122
MaxIpCalls == 32
MonthSlack == 1
MaxMonthCalls == 3
MaxKeyCalls == 3
TierSlack == 1
MaxDays == 30
NumWorkers == 2

(***************************************************************************)
(* Exact token amounts: [w |-> whole, f |-> sixtieths].                    *)
(***************************************************************************)
Tok(w, f60) == [w |-> w + (f60 \div MinuteDiv), f |-> f60 % MinuteDiv]

TokInt(n) == [w |-> n, f |-> 0]

TokGE(a, b) == a.w > b.w \/ (a.w = b.w /\ a.f >= b.f)

TokAdd(a, b) == Tok(a.w + b.w, a.f + b.f)

TokSub(a, b) == Tok(a.w - b.w, a.f - b.f)

\* min(ceiling, t + amount), evaluated without forming t + amount when it
\* would pass the ceiling.
TokMinSum(ceiling, t, amount) ==
    IF TokGE(amount, TokSub(ceiling, t)) THEN ceiling ELSE TokAdd(t, amount)

\* A cost is held as a number of sixtieths (1.0 = 60, 0.5 = 30).
Cost(halves) == halves * (MinuteDiv \div 2)

CostTok(c) == Tok(0, c)

\* Python int(x) of a float: truncation toward zero.
IntOfCost(c) == IF c >= 0 THEN c \div MinuteDiv ELSE -((-c) \div MinuteDiv)

\* Python int(x) of a token amount.
IntOfTok(t) == IF t.w >= 0 \/ t.f = 0 THEN t.w ELSE t.w + 1

Max0(n) == IF n > 0 THEN n ELSE 0

(***************************************************************************)
(* Inputs.                                                                 *)
(***************************************************************************)
NoUser == ""
Users == {"user1", "user2"}
NoIp == ""
Ips == {"192.168.1.1", "192.168.1.2"}
Tiers == {"free", "pro", "enterprise", "partner"}
EndpointNames == {"/identify", "/compare"}
\* Costs an endpoint is registered with in the general specification: 0,
\* 100.0 and -1.0 (an endpoint that is not registered costs 1.0).
CostSet == {Cost(0), Cost(200), Cost(-2)}
TickSteps == {RefillSeconds - 1, RefillSeconds, RefillSeconds + 1}

(***************************************************************************)
(* Tier definitions: (per-minute limit, monthly quota), None = unlimited.  *)
(***************************************************************************)
None == [none |-> TRUE, val |-> 0]
Some(n) == [none |-> FALSE, val |-> n]

tier_limits(tier) ==
    CASE tier = "free" -> [minute |-> Some(FreeMinuteLimit), monthly |-> Some(FreeMonthlyQuota)]
      [] tier = "pro" -> [minute |-> Some(ProMinuteLimit), monthly |-> Some(ProMonthlyQuota)]
      [] tier = "enterprise" -> [minute |-> None, monthly |-> None]
      [] tier = "partner" -> [minute |-> None, monthly |-> None]

get_minute_limit(tier) ==
    LET limit == tier_limits(tier).minute
    IN IF limit.none THEN UnlimitedSentinel ELSE limit.val

get_token_bucket_size(tier) == TokInt(get_minute_limit(tier))

\* bucket_size * 1.5
BurstCeiling(tier) ==
    LET L == get_minute_limit(tier)
    IN Tok((L \div BurstDen) * BurstNum,
           ((L % BurstDen) * BurstNum * MinuteDiv) \div BurstDen)

\* bucket_size * (time_passed / 60)
RefillAmount(tier, time_passed) ==
    LET L == get_minute_limit(tier)
    IN Tok((L \div MinuteDiv) * time_passed, (L % MinuteDiv) * time_passed)

(***************************************************************************)
(* schemas.rate_limit.QuotaTierEnum: member name -> value.                 *)
(***************************************************************************)
QuotaTierEnum ==
    [FREE |-> "free", PRO |-> "pro", ENTERPRISE |-> "enterprise", PARTNER |-> "partner"]

\* QuotaTierEnum.<name>: the member, or AttributeError.
QuotaTierEnumMember(name) ==
    IF name \in DOMAIN QuotaTierEnum
    THEN [raised |-> FALSE, value |-> QuotaTierEnum[name]]
    ELSE [raised |-> TRUE, value |-> "AttributeError"]

\* QuotaTierEnum(value): the member with that value.
QuotaTierEnumOf(value) ==
    QuotaTierEnum[CHOOSE name \in DOMAIN QuotaTierEnum : QuotaTierEnum[name] = value]

(***************************************************************************)
(* UserQuota.                                                              *)
(***************************************************************************)
UserQuota(user_id, tier, available_tokens, last_refill) ==
    [user_id |-> user_id, tier |-> tier, available_tokens |-> available_tokens,
     last_refill |-> last_refill, month_requests |-> 0, total_requests |-> 0]

\* has_quota that wants more than the cost.
has_quota_strict(quota, cost) ==
    ~TokGE(CostTok(cost), quota.available_tokens)

has_quota(quota, cost) == TokGE(quota.available_tokens, CostTok(cost))

\* consume that charges one token whatever the endpoint costs.
consume_flat(quota, cost) ==
    [quota EXCEPT !.available_tokens = TokSub(@, CostTok(Cost(2))),
                  !.total_requests = @ + 1,
                  !.month_requests = @ + 1]

consume(quota, cost) ==
    [quota EXCEPT !.available_tokens = TokSub(@, CostTok(cost)),
                  !.total_requests = @ + 1,
                  !.month_requests = @ + 1]

\* refill_tokens that waits for more than a full minute.
refill_tokens_late(quota, t) ==
    LET time_passed == t - quota.last_refill
    IN IF time_passed <= RefillSeconds
       THEN quota
       ELSE [quota EXCEPT
               !.available_tokens =
                   TokMinSum(BurstCeiling(quota.tier), @,
                             RefillAmount(quota.tier, time_passed)),
               !.last_refill = t]

refill_tokens(quota, t) ==
    LET time_passed == t - quota.last_refill
    IN IF time_passed < RefillSeconds
       THEN quota
       ELSE [quota EXCEPT
               !.available_tokens =
                   TokMinSum(BurstCeiling(quota.tier), @,
                             RefillAmount(quota.tier, time_passed)),
               !.last_refill = t]

(***************************************************************************)
(* State.                                                                  *)
(***************************************************************************)
VARIABLES
    now,          \* int(time.time())
    heap,         \* the UserQuota objects, by object identity
    user_quotas,  \* RateLimitService.user_quotas: user_id -> object
    ip_quotas,    \* RateLimitService.ip_quotas: client_ip -> (timestamp, count)
    endpoints,    \* RateLimitService.endpoints: endpoint -> cost
    metrics,      \* RateLimitService.metrics
    last,         \* the most recent check_limit call and what it returned
    wk,           \* the calls in progress on the worker threads
    redis,        \* redis_enabled, client, the caller's event loop and its tasks
    reply,        \* the latest answer of an administrative route
    app           \* main.py: the global rate_limit_service and the middleware's

vars ==
    <<now, heap, user_quotas, ip_quotas, endpoints, metrics, last, wk, redis, reply,
      app>>

\* check_monthly_quota that lets the call at the quota through.
check_monthly_quota_late(quota) ==
    LET tier_quota == tier_limits(quota.tier).monthly
    IN IF tier_quota.none THEN TRUE ELSE quota.month_requests <= tier_quota.val

\* check_monthly_quota that opens a new month 30 days after the last refill.
check_monthly_quota_rollover(quota) ==
    LET tier_quota == tier_limits(quota.tier).monthly
    IN IF tier_quota.none
       THEN TRUE
       ELSE \/ quota.month_requests < tier_quota.val
            \/ now - quota.last_refill >= ResetDays * DaySeconds

check_monthly_quota(quota) ==
    LET tier_quota == tier_limits(quota.tier).monthly
    IN IF tier_quota.none THEN TRUE ELSE quota.month_requests < tier_quota.val

Workers == 1..NumWorkers
NoRef == 0
ObjIds == 1..(Cardinality(Users) + NumWorkers)
NoObj == UserQuota(NoUser, "free", TokInt(0), 0)
NoWindow == [set |-> FALSE, last_reset |-> 0, count |-> 0]
Window(last_reset, count) == [set |-> TRUE, last_reset |-> last_reset, count |-> count]
Unregistered == None

\* self.endpoints.get(endpoint, EndpointConfig(endpoint=endpoint)).cost
endpoint_cost(endpoint) ==
    IF endpoint \in EndpointNames
    THEN IF endpoints[endpoint].none THEN Cost(2) ELSE endpoints[endpoint].val
    ELSE Cost(2)

(***************************************************************************)
(* RateLimitService: the helpers of check_limit.                           *)
(***************************************************************************)
\* A new object takes the first free identity.
NewRef == CHOOSE i \in ObjIds : heap[i] = NoObj /\ \A j \in ObjIds : j < i => heap[j] # NoObj

\* The object is kept while a worker thread still holds it.
Held(ref) == \E w \in Workers : wk[w].pc # "idle" /\ wk[w].ref = ref

\* get_or_create_user_quota that counts a creation as a hit.
get_or_create_user_quota_hit(user_id, tier) ==
    IF user_quotas[user_id] # NoRef
    THEN [ref |-> user_quotas[user_id],
          quota |-> heap[user_quotas[user_id]],
          cache_hits |-> metrics.cache_hits + 1,
          cache_misses |-> metrics.cache_misses]
    ELSE [ref |-> NewRef,
          quota |-> UserQuota(user_id, tier, get_token_bucket_size(tier), now),
          cache_hits |-> metrics.cache_hits + 1,
          cache_misses |-> metrics.cache_misses]

\* get_or_create_user_quota that starts a bucket at the burst ceiling.
get_or_create_user_quota_burst(user_id, tier) ==
    IF user_quotas[user_id] # NoRef
    THEN [ref |-> user_quotas[user_id],
          quota |-> heap[user_quotas[user_id]],
          cache_hits |-> metrics.cache_hits + 1,
          cache_misses |-> metrics.cache_misses]
    ELSE [ref |-> NewRef,
          quota |-> UserQuota(user_id, tier, BurstCeiling(tier), now),
          cache_hits |-> metrics.cache_hits,
          cache_misses |-> metrics.cache_misses + 1]

\* get_or_create_user_quota that moves a stored bucket to the caller's tier.
get_or_create_user_quota_retier(user_id, tier) ==
    IF user_quotas[user_id] # NoRef
    THEN [ref |-> user_quotas[user_id],
          quota |-> [heap[user_quotas[user_id]] EXCEPT !.tier = tier],
          cache_hits |-> metrics.cache_hits + 1,
          cache_misses |-> metrics.cache_misses]
    ELSE [ref |-> NewRef,
          quota |-> UserQuota(user_id, tier, get_token_bucket_size(tier), now),
          cache_hits |-> metrics.cache_hits,
          cache_misses |-> metrics.cache_misses + 1]

get_or_create_user_quota(user_id, tier) ==
    IF user_quotas[user_id] # NoRef
    THEN [ref |-> user_quotas[user_id],
          quota |-> heap[user_quotas[user_id]],
          cache_hits |-> metrics.cache_hits + 1,
          cache_misses |-> metrics.cache_misses]
    ELSE [ref |-> NewRef,
          quota |-> UserQuota(user_id, tier, get_token_bucket_size(tier), now),
          cache_hits |-> metrics.cache_hits,
          cache_misses |-> metrics.cache_misses + 1]

check_minute_limit(quota, cost) ==
    LET refilled == refill_tokens(quota, now)
    IN [quota |-> refilled, ok |-> has_quota(refilled, cost)]

\* check_ip_limit that keeps one window for all client IPs.
check_ip_limit_shared(client_ip, cost) ==
    IF client_ip = NoIp
    THEN [ok |-> TRUE, ip_quotas |-> ip_quotas]
    ELSE IF ~ip_quotas[client_ip].set
    THEN [ok |-> TRUE,
          ip_quotas |-> [ip \in Ips |-> Window(now, IntOfCost(cost))]]
    ELSE LET last_reset == ip_quotas[client_ip].last_reset
             count == ip_quotas[client_ip].count
             new_count == count + IntOfCost(cost)
         IN IF now - last_reset > IpWindowSeconds
            THEN [ok |-> TRUE,
                  ip_quotas |-> [ip \in Ips |-> Window(now, IntOfCost(cost))]]
            ELSE IF new_count > IpLimit
            THEN [ok |-> FALSE, ip_quotas |-> ip_quotas]
            ELSE [ok |-> TRUE,
                  ip_quotas |-> [ip \in Ips |-> Window(last_reset, new_count)]]

check_ip_limit(client_ip, cost) ==
    IF client_ip = NoIp
    THEN [ok |-> TRUE, ip_quotas |-> ip_quotas]
    ELSE IF ~ip_quotas[client_ip].set
    THEN [ok |-> TRUE,
          ip_quotas |-> [ip_quotas EXCEPT ![client_ip] = Window(now, IntOfCost(cost))]]
    ELSE LET last_reset == ip_quotas[client_ip].last_reset
             count == ip_quotas[client_ip].count
             new_count == count + IntOfCost(cost)
         IN IF now - last_reset > IpWindowSeconds
            THEN [ok |-> TRUE,
                  ip_quotas |-> [ip_quotas EXCEPT ![client_ip] = Window(now, IntOfCost(cost))]]
            ELSE IF new_count > IpLimit
            THEN [ok |-> FALSE, ip_quotas |-> ip_quotas]
            ELSE [ok |-> TRUE,
                  ip_quotas |-> [ip_quotas EXCEPT ![client_ip] = Window(last_reset, new_count)]]

(***************************************************************************)
(* RateLimitMiddleware: the response to a call.                            *)
(***************************************************************************)
\* Python's "x or y" on integers.
OrElse(x, y) == IF x # 0 THEN x ELSE y

\* handle_rate_limit_error that answers every failure as the per-minute one.
handle_rate_limit_error_minute(error, t) ==
    [status_code |-> HttpTooManyRequests,
     retry_after_header |-> RetryAfterMinute,
     reset_header |-> t + RetryAfterMinute]

handle_rate_limit_error(error, t) ==
    IF error.error_type = "monthly_quota_exceeded"
    THEN [status_code |-> HttpTooManyRequests,
          retry_after_header |-> OrElse(error.retry_after, DaySeconds),
          reset_header |-> OrElse(error.reset_at, t + ResetDays * DaySeconds)]
    ELSE [status_code |-> HttpTooManyRequests,
          retry_after_header |-> OrElse(error.retry_after, RetryAfterMinute),
          reset_header |-> t + RetryAfterMinute]

\* What a call was and what it gave back: the dictionary returned, or the
\* RateLimitError raised, and the response dispatch makes of it.
Call(user_id, user_tier, endpoint, client_ip, cost) ==
    [user_id |-> user_id, user_tier |-> user_tier, endpoint |-> endpoint,
     client_ip |-> client_ip, cost |-> cost, at |-> now]

RateLimitError(call, error_type, retry_after, reset_at) ==
    LET error == [error_type |-> error_type, retry_after |-> retry_after, reset_at |-> reset_at]
        response == handle_rate_limit_error(error, now)
    IN [call |-> call, allowed |-> FALSE, error_type |-> error_type,
        retry_after |-> retry_after, reset_at |-> reset_at,
        remaining |-> 0, tier |-> "none", monthly_remaining |-> 0,
        status_code |-> response.status_code,
        retry_after_header |-> response.retry_after_header]

Allowed(call, remaining, reset_at, tier, monthly_remaining) ==
    [call |-> call, allowed |-> TRUE, error_type |-> "none",
     retry_after |-> 0, reset_at |-> reset_at,
     remaining |-> remaining, tier |-> tier, monthly_remaining |-> monthly_remaining,
     status_code |-> HttpOk, retry_after_header |-> 0]

\* An exception that is no RateLimitError passes through dispatch to the
\* application's handler for Exception.
Unhandled(call, exception) ==
    [call |-> call, allowed |-> FALSE, error_type |-> exception,
     retry_after |-> 0, reset_at |-> 0,
     remaining |-> 0, tier |-> "none", monthly_remaining |-> 0,
     status_code |-> HttpServerError, retry_after_header |-> 0]

NoCall ==
    [call |-> [user_id |-> NoUser, user_tier |-> "none", endpoint |-> "none",
               client_ip |-> NoIp, cost |-> 0, at |-> 0],
     allowed |-> FALSE, error_type |-> "none", retry_after |-> 0, reset_at |-> 0,
     remaining |-> 0, tier |-> "none", monthly_remaining |-> 0,
     status_code |-> 0, retry_after_header |-> 0]

monthly_remaining(user_tier, quota) ==
    LET tier_quota == tier_limits(user_tier).monthly
    IN Max0(IF ~tier_quota.none /\ tier_quota.val # 0
            THEN tier_quota.val - quota.month_requests
            ELSE UnlimitedSentinel)

\* A Python float quotient a / b of two counters, kept as the fraction.
Quotient(a, b) == [num |-> a, den |-> b]
ZeroRate == [num |-> 0, den |-> 1]

get_metrics ==
    LET total_checked == metrics.total_requests
        total_rejected == metrics.total_rejected
        cache_hits == metrics.cache_hits
        cache_misses == metrics.cache_misses
    IN [total_requests |-> total_checked,
        total_rejected |-> total_rejected,
        rejection_rate |-> IF total_checked > 0
                           THEN Quotient(total_rejected, total_checked)
                           ELSE ZeroRate,
        cache_hits |-> cache_hits,
        cache_misses |-> cache_misses,
        cache_hit_ratio |-> IF cache_hits + cache_misses > 0
                            THEN Quotient(cache_hits, cache_hits + cache_misses)
                            ELSE ZeroRate,
        active_users |-> Cardinality({u \in Users : user_quotas[u] # NoRef}),
        active_ips |-> Cardinality({ip \in Ips : ip_quotas[ip].set})]

(***************************************************************************)
(* RateLimitService: the operations, each taken as one step.               *)
(***************************************************************************)
\* "if self.redis_enabled: asyncio.create_task(self._persist_quota(quota))":
\* the task is queued on the running event loop of the calling thread, and
\* create_task raises RuntimeError when that thread has none.
create_task ==
    IF ~redis.redis_enabled
    THEN [raised |-> FALSE, redis |-> redis]
    ELSE IF redis.running_loop
    THEN [raised |-> FALSE, redis |-> [redis EXCEPT !.tasks = @ + 1]]
    ELSE [raised |-> TRUE, redis |-> redis]

Quiet == \A w \in Workers : wk[w].pc = "idle"

check_limit(user_id, user_tier, endpoint, client_ip) ==
    LET cost == endpoint_cost(endpoint)
        call == Call(user_id, user_tier, endpoint, client_ip, cost)
    IN
    /\ Quiet
    /\ UNCHANGED <<now, endpoints, wk, reply, app>>
    /\ IF user_id # NoUser
       THEN LET got == get_or_create_user_quota(user_id, user_tier)
                counted == [total_requests |-> metrics.total_requests + 1,
                            total_rejected |-> metrics.total_rejected,
                            cache_hits |-> got.cache_hits,
                            cache_misses |-> got.cache_misses]
                minute == check_minute_limit(got.quota, cost)
                consumed == consume(minute.quota, cost)
                task == create_task
            IN
            /\ user_quotas' = [user_quotas EXCEPT ![user_id] = got.ref]
            /\ ip_quotas' = ip_quotas
            /\ IF ~check_monthly_quota(got.quota)
               THEN /\ heap' = [heap EXCEPT ![got.ref] = got.quota]
                    /\ metrics' = [counted EXCEPT !.total_rejected = @ + 1]
                    /\ redis' = redis
                    /\ last' = RateLimitError(call, "monthly_quota_exceeded",
                                              RetryAfterMonthly,
                                              now + ResetDays * DaySeconds)
               ELSE IF ~minute.ok
               THEN /\ heap' = [heap EXCEPT ![got.ref] = minute.quota]
                    /\ metrics' = [counted EXCEPT !.total_rejected = @ + 1]
                    /\ redis' = redis
                    /\ last' = RateLimitError(call, "rate_limit_exceeded",
                                              RetryAfterMinute, now + ResetSeconds)
               ELSE /\ heap' = [heap EXCEPT ![got.ref] = consumed]
                    /\ metrics' = counted
                    /\ redis' = task.redis
                    /\ last' = IF task.raised
                               THEN Unhandled(call, "RuntimeError")
                               ELSE Allowed(call,
                                            Max0(IntOfTok(consumed.available_tokens)),
                                            now + ResetSeconds,
                                            QuotaTierEnumOf(user_tier),
                                            monthly_remaining(user_tier, consumed))
       ELSE LET ip == check_ip_limit(client_ip, cost)
            IN
            /\ UNCHANGED <<heap, user_quotas, redis>>
            /\ ip_quotas' = ip.ip_quotas
            /\ IF ~ip.ok
               THEN /\ metrics' = [metrics EXCEPT !.total_requests = @ + 1,
                                                  !.total_rejected = @ + 1]
                    /\ last' = RateLimitError(call, "rate_limit_exceeded",
                                              RetryAfterMinute, now + ResetSeconds)
               ELSE /\ metrics' = [metrics EXCEPT !.total_requests = @ + 1]
                    /\ last' = LET tier == QuotaTierEnumMember("Free")
                               IN IF tier.raised
                                  THEN Unhandled(call, tier.value)
                                  ELSE Allowed(call,
                                               Max0(IntOfTok(TokSub(TokInt(IpLimit),
                                                                    CostTok(cost)))),
                                               now + ResetSeconds, tier.value, 0)

register_endpoint(endpoint, cost) ==
    /\ Quiet
    /\ endpoints' = [endpoints EXCEPT ![endpoint] = Some(cost)]
    /\ UNCHANGED <<now, heap, user_quotas, ip_quotas, metrics, last, wk, redis, reply, app>>

\* clear_user_quota that empties the whole store.
clear_user_quota_all(user_id) ==
    /\ IF user_quotas[user_id] # NoRef
       THEN /\ user_quotas' = [u \in Users |-> NoRef]
            /\ heap' = [i \in ObjIds |-> NoObj]
       ELSE UNCHANGED <<user_quotas, heap>>
    /\ UNCHANGED <<now, ip_quotas, endpoints, metrics, last, wk, redis, reply, app>>

\* del self.user_quotas[user_id]: the object itself lives on while a thread
\* that looked it up still holds it.
clear_user_quota(user_id) ==
    /\ IF user_quotas[user_id] # NoRef
       THEN /\ user_quotas' = [user_quotas EXCEPT ![user_id] = NoRef]
            /\ heap' = IF Held(user_quotas[user_id])
                       THEN heap
                       ELSE [heap EXCEPT ![user_quotas[user_id]] = NoObj]
       ELSE UNCHANGED <<user_quotas, heap>>
    /\ UNCHANGED <<now, ip_quotas, endpoints, metrics, last, wk, redis, reply, app>>

\* time.time() moves on between operations.
advance_time(seconds) ==
    /\ Quiet
    /\ now + seconds <= MaxTime
    /\ now' = now + seconds
    /\ UNCHANGED <<heap, user_quotas, ip_quotas, endpoints, metrics, last, wk, redis, reply, app>>

\* time.time() moves on by whole days.
advance_days(days) ==
    /\ Quiet
    /\ now + days * DaySeconds <= MaxDays * DaySeconds + MaxTime
    /\ now' = now + days * DaySeconds
    /\ UNCHANGED <<heap, user_quotas, ip_quotas, endpoints, metrics, last, wk, redis, reply, app>>

\* get_rate_limit_service of the routes: "return RateLimitService()", the
\* store of a service that was just built.
get_rate_limit_service ==
    [user_quotas |-> [u \in Users |-> NoRef], heap |-> [i \in ObjIds |-> NoObj]]

\* GET /api/v1/rate-limit/quota/{user_id}
get_user_quota(user_id) ==
    LET service == get_rate_limit_service
    IN /\ Quiet
       /\ reply' = IF service.user_quotas[user_id] = NoRef
                   THEN [route |-> "get_user_quota", user_id |-> user_id,
                         status_code |-> HttpNotFound, quota |-> NoObj]
                   ELSE [route |-> "get_user_quota", user_id |-> user_id,
                         status_code |-> HttpOk,
                         quota |-> service.heap[service.user_quotas[user_id]]]
       /\ UNCHANGED <<now, heap, user_quotas, ip_quotas, endpoints, metrics, last,
                      wk, redis, app>>

\* POST /api/v1/rate-limit/quota/{user_id}/reset: clear_user_quota on the
\* service the route has got, which the handler then drops.
reset_user_quota(user_id) ==
    /\ Quiet
    /\ reply' = [route |-> "reset_user_quota", user_id |-> user_id,
                 status_code |-> HttpOk, quota |-> NoObj]
    /\ UNCHANGED <<now, heap, user_quotas, ip_quotas, endpoints, metrics, last,
                   wk, redis, app>>

\* main.py when it has been imported: the global rate_limit_service is None,
\* and setup_rate_limiting has handed that None to RateLimitMiddleware, which
\* builds a service of its own ("rate_limit_service or RateLimitService()").
\* The service of the middleware is the one whose state the model carries.
NoService == "None"
MiddlewareService == "RateLimitMiddleware.__init__"
LifespanService == "lifespan"
ServiceOr(rate_limit_service, other) ==
    IF rate_limit_service # NoService THEN rate_limit_service ELSE other

Imported ==
    [rate_limit_service |-> NoService,
     middleware |-> ServiceOr(NoService, MiddlewareService),
     endpoints |-> [e \in EndpointNames |-> Unregistered]]

\* config.ENDPOINT_COSTS
ENDPOINT_COSTS == [e \in EndpointNames |-> IF e = "/compare" THEN Cost(4) ELSE Cost(2)]

\* lifespan, the startup: a service is built, bound to the global name and
\* the configured costs are registered with it.
lifespan ==
    /\ Quiet
    /\ app.rate_limit_service = NoService
    /\ app' = [app EXCEPT !.rate_limit_service = LifespanService,
                          !.endpoints = [e \in EndpointNames |-> Some(ENDPOINT_COSTS[e])]]
    /\ UNCHANGED <<now, heap, user_quotas, ip_quotas, endpoints, metrics, last, wk,
                   redis, reply>>

\* initialize: the client is made and the health of the backend checked; a
\* failed check switches persistence off.
initialize(healthy) ==
    /\ Quiet
    /\ redis' = IF redis.redis_enabled
                THEN [redis EXCEPT !.client = TRUE, !.redis_enabled = healthy]
                ELSE redis
    /\ UNCHANGED <<now, heap, user_quotas, ip_quotas, endpoints, metrics, last, wk, reply, app>>

\* A queued _persist_quota task runs, at any later time: it returns at once
\* without a client, and otherwise builds its payload and sends nothing.
persist_quota ==
    /\ redis.tasks > 0
    /\ redis' = [redis EXCEPT !.tasks = @ - 1]
    /\ UNCHANGED <<now, heap, user_quotas, ip_quotas, endpoints, metrics, last, wk, reply, app>>

\* The caller is a coroutine on an event loop (RateLimitMiddleware.dispatch)
\* or plain synchronous code; tasks queued on a loop that ends are dropped.
run_loop(running) ==
    /\ Quiet
    /\ redis.running_loop # running
    /\ redis' = [redis EXCEPT !.running_loop = running,
                              !.tasks = IF running THEN @ ELSE 0]
    /\ UNCHANGED <<now, heap, user_quotas, ip_quotas, endpoints, metrics, last, wk, reply, app>>

\* RateLimitMiddleware.exempt_paths with one path only.
exempt_paths_health == {"/health"}

exempt_paths == {"/health", "/metrics", "/docs", "/redoc", "/openapi.json"}

\* What call_next gives for a request that is passed on without a check.
Forwarded(path, user_id, user_tier, client_ip) ==
    [call |-> Call(user_id, user_tier, path, client_ip, 0),
     allowed |-> FALSE, error_type |-> "none", retry_after |-> 0, reset_at |-> 0,
     remaining |-> 0, tier |-> "none", monthly_remaining |-> 0,
     status_code |-> HttpOk, retry_after_header |-> 0]

\* RateLimitMiddleware.dispatch for a request with this path, API key, tier
\* header and client address.
dispatch(path, user_id, user_tier, client_ip) ==
    IF path \in exempt_paths
    THEN /\ Quiet
         /\ last' = Forwarded(path, user_id, user_tier, client_ip)
         /\ UNCHANGED <<now, heap, user_quotas, ip_quotas, endpoints, metrics,
                        wk, redis, reply, app>>
    ELSE check_limit(user_id, user_tier, path, client_ip)

(***************************************************************************)
(* check_limit on a worker thread, for a caller with identity.  Nothing in *)
(* RateLimitService or UserQuota takes a lock, so another thread may run   *)
(* between any two accesses to the shared objects: every "x += 1" and      *)
(* "x -= cost" is a read followed by a write.  pc tells where the thread   *)
(* is, tmp and tok hold what it has read, outcome what its call gave.      *)
(***************************************************************************)
\* self.metrics["total_requests"] += 1, the read
wk_begin(w, user_id, user_tier, endpoint) ==
    /\ wk[w].pc = "idle"
    /\ user_id # NoUser
    /\ wk' = [wk EXCEPT ![w].pc = "count",
                        ![w].call = Call(user_id, user_tier, endpoint, NoIp, 0),
                        ![w].tmp = metrics.total_requests]
    /\ UNCHANGED <<now, heap, user_quotas, ip_quotas, endpoints, metrics, last, redis, reply, app>>

\* self.metrics["total_requests"] += 1, the write
wk_count(w) ==
    /\ wk[w].pc = "count"
    /\ metrics' = [metrics EXCEPT !.total_requests = wk[w].tmp + 1]
    /\ wk' = [wk EXCEPT ![w].pc = "cost"]
    /\ UNCHANGED <<now, heap, user_quotas, ip_quotas, endpoints, last, redis, reply, app>>

wk_cost(w) ==
    /\ wk[w].pc = "cost"
    /\ wk' = [wk EXCEPT ![w].pc = "lookup",
                        ![w].call.cost = endpoint_cost(wk[w].call.endpoint)]
    /\ UNCHANGED <<now, heap, user_quotas, ip_quotas, endpoints, metrics, last, redis, reply, app>>

\* _get_or_create_user_quota: "if user_id in self.user_quotas"
wk_lookup(w) ==
    /\ wk[w].pc = "lookup"
    /\ wk' = IF user_quotas[wk[w].call.user_id] # NoRef
             THEN [wk EXCEPT ![w].pc = "hit"]
             ELSE [wk EXCEPT ![w].pc = "miss"]
    /\ UNCHANGED <<now, heap, user_quotas, ip_quotas, endpoints, metrics, last, redis, reply, app>>

\* the hit: "return self.user_quotas[user_id]" raises KeyError when the entry
\* was deleted after the test
wk_hit(w) ==
    /\ wk[w].pc = "hit"
    /\ metrics' = [metrics EXCEPT !.cache_hits = @ + 1]
    /\ wk' = IF user_quotas[wk[w].call.user_id] # NoRef
             THEN [wk EXCEPT ![w].pc = "monthly",
                             ![w].ref = user_quotas[wk[w].call.user_id]]
             ELSE [wk EXCEPT ![w].pc = "done", ![w].outcome = "KeyError"]
    /\ UNCHANGED <<now, heap, user_quotas, ip_quotas, endpoints, last, redis, reply, app>>

\* the miss: a new UserQuota is stored under the identity, over whatever
\* another thread stored there since the test
wk_miss(w) ==
    LET user_id == wk[w].call.user_id
        tier == wk[w].call.user_tier
        old == user_quotas[user_id]
        kept == IF old # NoRef /\ ~Held(old)
                THEN [heap EXCEPT ![old] = NoObj]
                ELSE heap
    IN /\ wk[w].pc = "miss"
       /\ metrics' = [metrics EXCEPT !.cache_misses = @ + 1]
       /\ user_quotas' = [user_quotas EXCEPT ![user_id] = NewRef]
       /\ heap' = [kept EXCEPT ![NewRef] =
                       UserQuota(user_id, tier, get_token_bucket_size(tier), now)]
       /\ wk' = [wk EXCEPT ![w].pc = "monthly", ![w].ref = NewRef]
       /\ UNCHANGED <<now, ip_quotas, endpoints, last, redis, reply, app>>

wk_monthly(w) ==
    /\ wk[w].pc = "monthly"
    /\ wk' = IF check_monthly_quota(heap[wk[w].ref])
             THEN [wk EXCEPT ![w].pc = "refill"]
             ELSE [wk EXCEPT ![w].pc = "reject",
                             ![w].outcome = "monthly_quota_exceeded"]
    /\ UNCHANGED <<now, heap, user_quotas, ip_quotas, endpoints, metrics, last, redis, reply, app>>

wk_refill(w) ==
    /\ wk[w].pc = "refill"
    /\ heap' = [heap EXCEPT ![wk[w].ref] = refill_tokens(@, now)]
    /\ wk' = [wk EXCEPT ![w].pc = "has_quota"]
    /\ UNCHANGED <<now, user_quotas, ip_quotas, endpoints, metrics, last, redis, reply, app>>

wk_has_quota(w) ==
    /\ wk[w].pc = "has_quota"
    /\ wk' = IF has_quota(heap[wk[w].ref], wk[w].call.cost)
             THEN [wk EXCEPT ![w].pc = "consume"]
             ELSE [wk EXCEPT ![w].pc = "reject",
                             ![w].outcome = "rate_limit_exceeded"]
    /\ UNCHANGED <<now, heap, user_quotas, ip_quotas, endpoints, metrics, last, redis, reply, app>>

\* UserQuota.consume, the read of each of its three updates
wk_consume_read(w) ==
    LET quota == heap[wk[w].ref]
    IN /\ wk[w].pc \in {"consume", "total", "month"}
       /\ wk' = CASE wk[w].pc = "consume" ->
                       [wk EXCEPT ![w].pc = "consume_write",
                                  ![w].tok = quota.available_tokens]
                  [] wk[w].pc = "total" ->
                       [wk EXCEPT ![w].pc = "total_write",
                                  ![w].tmp = quota.total_requests]
                  [] wk[w].pc = "month" ->
                       [wk EXCEPT ![w].pc = "month_write",
                                  ![w].tmp = quota.month_requests]
       /\ UNCHANGED <<now, heap, user_quotas, ip_quotas, endpoints, metrics, last, redis, reply, app>>

\* UserQuota.consume, the write of each of its three updates
wk_consume_write(w) ==
    /\ wk[w].pc \in {"consume_write", "total_write", "month_write"}
    /\ CASE wk[w].pc = "consume_write" ->
              /\ heap' = [heap EXCEPT ![wk[w].ref].available_tokens =
                                         TokSub(wk[w].tok, CostTok(wk[w].call.cost))]
              /\ wk' = [wk EXCEPT ![w].pc = "total"]
         [] wk[w].pc = "total_write" ->
              /\ heap' = [heap EXCEPT ![wk[w].ref].total_requests = wk[w].tmp + 1]
              /\ wk' = [wk EXCEPT ![w].pc = "month"]
         [] wk[w].pc = "month_write" ->
              /\ heap' = [heap EXCEPT ![wk[w].ref].month_requests = wk[w].tmp + 1]
              /\ wk' = [wk EXCEPT ![w].pc = "persist"]
    /\ UNCHANGED <<now, user_quotas, ip_quotas, endpoints, metrics, last, redis, reply, app>>

\* the persistence of the consumed quota, and the return
wk_persist(w) ==
    /\ wk[w].pc = "persist"
    /\ redis' = create_task.redis
    /\ wk' = [wk EXCEPT ![w].pc = "done",
                        ![w].outcome = IF create_task.raised
                                       THEN "RuntimeError" ELSE "allowed"]
    /\ UNCHANGED <<now, heap, user_quotas, ip_quotas, endpoints, metrics, last, reply, app>>

\* self.metrics["total_rejected"] += 1, the read
wk_reject(w) ==
    /\ wk[w].pc = "reject"
    /\ wk' = [wk EXCEPT ![w].pc = "raise", ![w].tmp = metrics.total_rejected]
    /\ UNCHANGED <<now, heap, user_quotas, ip_quotas, endpoints, metrics, last, redis, reply, app>>

\* self.metrics["total_rejected"] += 1, the write, and the raise
wk_raise(w) ==
    /\ wk[w].pc = "raise"
    /\ metrics' = [metrics EXCEPT !.total_rejected = wk[w].tmp + 1]
    /\ wk' = [wk EXCEPT ![w].pc = "done"]
    /\ UNCHANGED <<now, heap, user_quotas, ip_quotas, endpoints, last, redis, reply, app>>

(***************************************************************************)
(* The service after __init__.                                             *)
(***************************************************************************)
IdleWorker ==
    [pc |-> "idle", ref |-> NoRef, call |-> NoCall.call,
     tmp |-> 0, tok |-> TokInt(0), outcome |-> "none"]

\* No administrative route has been asked yet.
NoReply == [route |-> "none", user_id |-> NoUser, status_code |-> 0, quota |-> NoObj]

\* RateLimitService(redis_enabled=...) before initialize(); no task is queued.
Redis(redis_enabled) ==
    [redis_enabled |-> redis_enabled, client |-> FALSE,
     running_loop |-> FALSE, tasks |-> 0]

\* The service is built as in the tests, RateLimitService(redis_enabled=False).
Init ==
    /\ redis = Redis(FALSE)
    /\ reply = NoReply
    /\ app = Imported
    /\ now = 0
    /\ heap = [i \in ObjIds |-> NoObj]
    /\ user_quotas = [u \in Users |-> NoRef]
    /\ ip_quotas = [ip \in Ips |-> NoWindow]
    /\ endpoints = [e \in EndpointNames |-> Unregistered]
    /\ metrics = [total_requests |-> 0, total_rejected |-> 0,
                  cache_hits |-> 0, cache_misses |-> 0]
    /\ last = NoCall
    /\ wk = [w \in Workers |-> IdleWorker]

\* The callers of the general specification: an identity with any tier, or
\* no identity and a client IP (or none).
Requests ==
    ({"user1"} \X Tiers \X {NoIp})
    \cup ({NoUser} \X {"free"} \X {"192.168.1.1", NoIp})

Next ==
    \/ \E r \in Requests :
          /\ metrics.total_requests < MaxCalls
          /\ check_limit(r[1], r[2], "/compare", r[3])
    \/ \E cost \in CostSet : register_endpoint("/compare", cost)
    \/ \E user_id \in Users : clear_user_quota(user_id)
    \/ \E seconds \in TickSteps : advance_time(seconds)

Spec == Init /\ [][Next]_vars

(***************************************************************************)
(* One fresh identity calling one endpoint again and again, every call     *)
(* less than 60 s after the first, until a call is rejected.  The endpoint *)
(* is "/identify" (not registered: cost 1.0) or "/compare", registered     *)
(* before the first call with cost 0, 1.5 or 2.0.  The run at cost 0 ends  *)
(* at the monthly quota and is made on the Free tier only.                 *)
(***************************************************************************)
FreshCosts == {Cost(0), Cost(3), Cost(4)}
FreshTiers == {"free", "pro"}

NextFresh ==
    \/ \E cost \in FreshCosts :
          /\ metrics.total_requests = 0
          /\ register_endpoint("/compare", cost)
    \/ \E tier \in FreshTiers, endpoint \in EndpointNames :
          /\ last = NoCall \/ (last.allowed /\ last.call.user_tier = tier
                                            /\ last.call.endpoint = endpoint)
          /\ endpoint_cost(endpoint) > 0 \/ tier = "free"
          /\ check_limit("user1", tier, endpoint, NoIp)
    \/ \E seconds \in TickSteps :
          /\ now + seconds < RefillSeconds
          /\ advance_time(seconds)

SpecFresh == Init /\ [][NextFresh]_vars

(***************************************************************************)
(* Callers without identity behind one client IP, on "/identify" (not      *)
(* registered: cost 1.0), while time passes.                               *)
(***************************************************************************)
NextIp ==
    \/ /\ metrics.total_requests < MaxIpCalls
       /\ check_limit(NoUser, "free", "/identify", "192.168.1.1")
    \/ \E seconds \in TickSteps : advance_time(seconds)

SpecIp == Init /\ [][NextIp]_vars

(***************************************************************************)
(* A Free identity at the end of its month.  The run starts where the      *)
(* service is after "/compare" was registered with cost 0 and "user1"      *)
(* called it WarmUpCalls times at time 0, MonthSlack calls short of the    *)
(* monthly quota (SpecFresh reaches this very state).  From there "user1"  *)
(* and a client IP call, the endpoint is registered again with cost 0,     *)
(* 100.0 or 200.0, and time passes, for MaxMonthCalls more calls.          *)
(***************************************************************************)
MonthCosts == {Cost(0), Cost(200), Cost(400)}
MonthRequests == {<<"user1", "free", NoIp>>, <<NoUser, "free", "192.168.1.1">>}
WarmUpCalls == FreeMonthlyQuota - MonthSlack

InitMonth ==
    /\ redis = Redis(FALSE)
    /\ reply = NoReply
    /\ app = Imported
    /\ now = 0
    /\ heap = [i \in ObjIds |->
                 IF i = 1
                 THEN [UserQuota("user1", "free", get_token_bucket_size("free"), 0)
                          EXCEPT !.total_requests = WarmUpCalls,
                                 !.month_requests = WarmUpCalls]
                 ELSE NoObj]
    /\ user_quotas = [u \in Users |-> IF u = "user1" THEN 1 ELSE NoRef]
    /\ ip_quotas = [ip \in Ips |-> NoWindow]
    /\ endpoints = [e \in EndpointNames |->
                      IF e = "/compare" THEN Some(Cost(0)) ELSE Unregistered]
    /\ metrics = [total_requests |-> WarmUpCalls, total_rejected |-> 0,
                  cache_hits |-> WarmUpCalls - 1, cache_misses |-> 1]
    /\ last = Allowed([user_id |-> "user1", user_tier |-> "free",
                       endpoint |-> "/compare", client_ip |-> NoIp,
                       cost |-> Cost(0), at |-> 0],
                      FreeMinuteLimit, ResetSeconds, QuotaTierEnumOf("free"),
                      FreeMonthlyQuota - WarmUpCalls)
    /\ wk = [w \in Workers |-> IdleWorker]

NextMonth ==
    \/ \E cost \in MonthCosts : register_endpoint("/compare", cost)
    \/ \E r \in MonthRequests :
          /\ metrics.total_requests < WarmUpCalls + MaxMonthCalls
          /\ check_limit(r[1], r[2], "/compare", r[3])
    \/ \E seconds \in TickSteps : advance_time(seconds)

SpecMonth == InitMonth /\ [][NextMonth]_vars

(***************************************************************************)
(* Threads that meet at one bucket.  "user1" (Free) calls "/identify"      *)
(* (cost 1.0) one call after the other at time 0 while its tokens last;    *)
(* once fewer tokens are left than there are worker threads, each thread   *)
(* makes one such call, their steps interleaved in every order.            *)
(***************************************************************************)
\* The tokens an identity has left: those of a new bucket if it has none.
TokensLeft(user_id) ==
    IF user_quotas[user_id] = NoRef
    THEN get_token_bucket_size("free")
    ELSE heap[user_quotas[user_id]].available_tokens

NextConc ==
    \/ /\ TokGE(TokensLeft("user1"), CostTok(Cost(2)))
       /\ check_limit("user1", "free", "/identify", NoIp)
    \/ \E w \in Workers :
          /\ user_quotas["user1"] # NoRef
          /\ ~TokGE(TokensLeft("user1"), TokInt(NumWorkers))
          /\ wk_begin(w, "user1", "free", "/identify")
    \/ \E w \in Workers : wk_count(w)
    \/ \E w \in Workers : wk_cost(w)
    \/ \E w \in Workers : wk_lookup(w)
    \/ \E w \in Workers : wk_hit(w)
    \/ \E w \in Workers : wk_monthly(w)
    \/ \E w \in Workers : wk_refill(w)
    \/ \E w \in Workers : wk_has_quota(w)
    \/ \E w \in Workers : wk_consume_read(w)
    \/ \E w \in Workers : wk_consume_write(w)
    \/ \E w \in Workers : wk_persist(w)
    \/ \E w \in Workers : wk_reject(w)
    \/ \E w \in Workers : wk_raise(w)

SpecConc == Init /\ [][NextConc]_vars

(***************************************************************************)
(* Several keys side by side: "user1" (Free or Enterprise), "user2" (Pro), *)
(* two client IPs and callers with neither, on "/compare" (cost 1.0 until  *)
(* it is registered with 100.0), with administrative resets and time.      *)
(***************************************************************************)
KeyCosts == {Cost(200)}
KeyRequests ==
    {<<"user1", "free", NoIp>>, <<"user1", "enterprise", NoIp>>,
     <<"user2", "pro", "192.168.1.1">>,
     <<NoUser, "free", "192.168.1.1">>, <<NoUser, "free", "192.168.1.2">>,
     <<NoUser, "free", NoIp>>}

NextKeys ==
    \/ \E r \in KeyRequests :
          /\ metrics.total_requests < MaxKeyCalls
          /\ check_limit(r[1], r[2], "/compare", r[3])
    \/ \E cost \in KeyCosts : register_endpoint("/compare", cost)
    \/ \E user_id \in Users : clear_user_quota(user_id)
    \/ \E seconds \in TickSteps : advance_time(seconds)

SpecKeys == Init /\ [][NextKeys]_vars

(***************************************************************************)
(* Resets under load.  "user1" (Free) calls "/identify" (cost 1.0 until it *)
(* is registered with 100.0) a few times in sequence; then each worker     *)
(* thread makes one such call while an administrator clears the quota of   *)
(* "user1" at any moment, between any two steps of the threads.            *)
(***************************************************************************)
NextReset ==
    \/ /\ Quiet
       /\ metrics.total_requests < MaxCalls
       /\ check_limit("user1", "free", "/identify", NoIp)
    \/ /\ Quiet
       /\ register_endpoint("/identify", Cost(200))
    \/ clear_user_quota("user1")
    \/ \E w \in Workers : wk_begin(w, "user1", "free", "/identify")
    \/ \E w \in Workers : wk_count(w)
    \/ \E w \in Workers : wk_cost(w)
    \/ \E w \in Workers : wk_lookup(w)
    \/ \E w \in Workers : wk_hit(w)
    \/ \E w \in Workers : wk_miss(w)
    \/ \E w \in Workers : wk_monthly(w)
    \/ \E w \in Workers : wk_refill(w)
    \/ \E w \in Workers : wk_has_quota(w)
    \/ \E w \in Workers : wk_consume_read(w)
    \/ \E w \in Workers : wk_consume_write(w)
    \/ \E w \in Workers : wk_persist(w)
    \/ \E w \in Workers : wk_reject(w)
    \/ \E w \in Workers : wk_raise(w)

SpecReset == Init /\ [][NextReset]_vars

(***************************************************************************)
(* Persistence.  The service is built with redis_enabled true or false and *)
(* may be initialized against a healthy or an unreachable backend; "user1" *)
(* (Free) calls "/identify" from synchronous code or from a coroutine, and *)
(* the queued persistence tasks run at any later time.                     *)
(***************************************************************************)
InitPersist ==
    /\ \E redis_enabled \in BOOLEAN : redis = Redis(redis_enabled)
    /\ reply = NoReply
    /\ app = Imported
    /\ now = 0
    /\ heap = [i \in ObjIds |-> NoObj]
    /\ user_quotas = [u \in Users |-> NoRef]
    /\ ip_quotas = [ip \in Ips |-> NoWindow]
    /\ endpoints = [e \in EndpointNames |-> Unregistered]
    /\ metrics = [total_requests |-> 0, total_rejected |-> 0,
                  cache_hits |-> 0, cache_misses |-> 0]
    /\ last = NoCall
    /\ wk = [w \in Workers |-> IdleWorker]

NextPersist ==
    \/ /\ metrics.total_requests < MaxCalls
       /\ check_limit("user1", "free", "/identify", NoIp)
    \/ register_endpoint("/identify", Cost(200))
    \/ \E healthy \in BOOLEAN : initialize(healthy)
    \/ \E running \in BOOLEAN : run_loop(running)
    \/ persist_quota
    \/ \E seconds \in TickSteps : advance_time(seconds)

SpecPersist == InitPersist /\ [][NextPersist]_vars

(***************************************************************************)
(* Requests through the middleware: "user1" (Free) or a client without API *)
(* key asks for "/identify" (cost 1.0 until it is registered with 100.0),  *)
(* for the exempt paths, and for "/health/", which is none of them.        *)
(***************************************************************************)
Paths ==
    {"/health", "/metrics", "/docs", "/redoc", "/openapi.json",
     "/identify", "/health/"}
Clients == {<<"user1", "free", "192.168.1.1">>, <<NoUser, "free", "192.168.1.1">>}

NextDispatch ==
    \/ \E path \in Paths, r \in Clients :
          /\ path \notin exempt_paths => metrics.total_requests < MaxCalls
          /\ dispatch(path, r[1], r[2], r[3])
    \/ register_endpoint("/identify", Cost(200))
    \/ \E seconds \in TickSteps : advance_time(seconds)

SpecDispatch == Init /\ [][NextDispatch]_vars

(***************************************************************************)
(* A tier that changes.  "user1" is first seen as Pro and makes more       *)
(* zero-cost calls of "/compare" than a Free month allows; then it calls   *)
(* "/identify" (cost 1.0) under any tier, MaxCalls times, as time passes.  *)
(***************************************************************************)
ProCalls == FreeMonthlyQuota + TierSlack

NextTiers ==
    \/ /\ metrics.total_requests = 0
       /\ register_endpoint("/compare", Cost(0))
    \/ /\ endpoint_cost("/compare") = Cost(0)
       /\ metrics.total_requests < ProCalls
       /\ check_limit("user1", "pro", "/compare", NoIp)
    \/ \E tier \in Tiers :
          /\ metrics.total_requests >= ProCalls
          /\ metrics.total_requests < ProCalls + MaxCalls
          /\ check_limit("user1", tier, "/identify", NoIp)
    \/ \E seconds \in TickSteps :
          /\ metrics.total_requests >= ProCalls
          /\ advance_time(seconds)

SpecTiers == Init /\ [][NextTiers]_vars

(***************************************************************************)
(* The month that never ends.  From the state of InitMonth "user1" calls   *)
(* "/compare" (cost 0, or 100.0 once registered so) under tier Free or     *)
(* Pro, MaxMonthCalls times, while seconds pass and then the 30 days after *)
(* which a monthly rejection tells the caller to come back; its quota may  *)
(* be cleared.                                                             *)
(***************************************************************************)
RolloverTiers == {"free", "pro"}

NextRollover ==
    \/ register_endpoint("/compare", Cost(200))
    \/ \E tier \in RolloverTiers :
          /\ metrics.total_requests < WarmUpCalls + MaxMonthCalls
          /\ check_limit("user1", tier, "/compare", NoIp)
    \/ clear_user_quota("user1")
    \/ \E seconds \in TickSteps : advance_time(seconds)
    \/ advance_days(ResetDays)

SpecRollover == InitMonth /\ [][NextRollover]_vars

(***************************************************************************)
(* The administrative routes beside the traffic: the two identities call   *)
(* "/identify" (Free, cost 1.0), MaxCalls times in all, as time passes,    *)
(* and the quota of either is queried or reset through the routes.         *)
(***************************************************************************)
NextAdmin ==
    \/ \E user_id \in Users :
          /\ metrics.total_requests < MaxCalls
          /\ check_limit(user_id, "free", "/identify", NoIp)
    \/ \E user_id \in Users : get_user_quota(user_id)
    \/ \E user_id \in Users : reset_user_quota(user_id)
    \/ \E seconds \in TickSteps : advance_time(seconds)

SpecAdmin == Init /\ [][NextAdmin]_vars

(***************************************************************************)
(* The application of main.py: it is imported, started, and "user1" (Free) *)
(* sends requests for "/identify" and "/compare" with its API key, MaxCalls *)
(* in all, as time passes.                                                 *)
(***************************************************************************)
NextApp ==
    \/ lifespan
    \/ \E path \in EndpointNames :
          /\ metrics.total_requests < MaxCalls
          /\ dispatch(path, "user1", "free", "192.168.1.1")
    \/ \E seconds \in TickSteps : advance_time(seconds)

SpecApp == Init /\ [][NextApp]_vars

(***************************************************************************)
(* Vocabulary of the properties.                                           *)
(***************************************************************************)
HasBucket(user_id) == user_quotas[user_id] # NoRef
Bucket(user_id) == heap[user_quotas[user_id]]

\* This step is a check_limit call (every call counts itself once).
IsCall == metrics'.total_requests = metrics.total_requests + 1
IsCallFor(user_id) == IsCall /\ last'.call.user_id = user_id /\ last'.call.at = now

\* perMinuteLimit(tier) * 1.5
Ceiling(tier) ==
    LET L == get_minute_limit(tier)
    IN Tok(L + (L \div 2), (MinuteDiv \div 2) * (L % 2))

TokLE(a, b) == a.w < b.w \/ (a.w = b.w /\ a.f <= b.f)
TokMin(a, b) == IF TokLE(a, b) THEN a ELSE b

\* The limiter let the call through: it returned allowed, or it failed only
\* afterwards, while building the answer.
Admitted(r) == r.allowed \/ r.status_code = HttpServerError

\* The call was answered 429.
Rejected(r) == r.status_code = HttpTooManyRequests

HasFiniteQuota(tier) == tier \in {"free", "pro"}
FiniteMonthlyQuota(tier) == IF tier = "free" THEN FreeMonthlyQuota ELSE ProMonthlyQuota
FiniteMinuteLimit(tier) == IF tier = "free" THEN FreeMinuteLimit ELSE ProMinuteLimit

CeilingHolds ==
    \A u \in Users :
        HasBucket(u) => TokLE(Bucket(u).available_tokens, Ceiling(Bucket(u).tier))

(***************************************************************************)
(* C2: in every reachable state every stored bucket has                    *)
(* availableTokens <= perMinuteLimit(bucket tier) * 1.5.                   *)
(***************************************************************************)
C2_BurstCeilingAlways == CeilingHolds

(***************************************************************************)
(* C6: refill is the documented function of (bucket, now).  On every call  *)
(* for an identity whose bucket exists and whose monthly quota is not      *)
(* reached, with elapsed = now - lastRefill: if elapsed < 60 the tokens    *)
(* and lastRefill are left alone, otherwise the tokens become              *)
(* min(1.5 * L, tokens + L * elapsed / 60) and lastRefill becomes now      *)
(* (the call then takes its cost if it is allowed).  An exhausted Free     *)
(* bucket holds between 100 and 150 tokens after a refill.                 *)
(***************************************************************************)
DocumentedRefill(bucket, t) ==
    LET elapsed == t - bucket.last_refill
        L == get_minute_limit(bucket.tier)
        added == Tok((L \div 60) * elapsed, (L % 60) * elapsed)
    IN IF elapsed < 60
       THEN [tokens |-> bucket.available_tokens, last_refill |-> bucket.last_refill]
       ELSE [tokens |-> IF TokLE(TokSub(Ceiling(bucket.tier), bucket.available_tokens), added)
                        THEN Ceiling(bucket.tier)
                        ELSE TokAdd(bucket.available_tokens, added),
             last_refill |-> t]

C6_RefillStep(u) ==
    (IsCallFor(u) /\ HasBucket(u) /\ last'.error_type # "monthly_quota_exceeded") =>
        LET expected == DocumentedRefill(Bucket(u), now)
            taken == IF last'.allowed THEN CostTok(last'.call.cost) ELSE TokInt(0)
        IN /\ HasBucket(u)'
           /\ Bucket(u)'.last_refill = expected.last_refill
           /\ Bucket(u)'.available_tokens = TokSub(expected.tokens, taken)
           /\ (/\ Bucket(u).tier = "free"
               /\ Bucket(u).available_tokens = TokInt(0)
               /\ now - Bucket(u).last_refill >= 60)
              => /\ TokLE(TokInt(FreeMinuteLimit), expected.tokens)
                 /\ TokLE(expected.tokens, TokInt(150))

C6_RefillIsDocumented == [][\A u \in Users : C6_RefillStep(u)]_vars

\* An exhausted Free bucket was refilled to exactly 100 tokens 60 s after
\* its creation by the call just made.
C6_Witness ==
    \E u \in Users :
        /\ HasBucket(u) /\ Bucket(u).tier = "free"
        /\ last.call.user_id = u /\ last.call.at = now /\ now = RefillSeconds
        /\ Bucket(u).last_refill = now
        /\ Bucket(u).total_requests = 2
        /\ last.allowed /\ last.call.cost = Cost(200)
        /\ Bucket(u).available_tokens = TokInt(0)

(***************************************************************************)
(* C7: every call for an identity that returns allowed has taken exactly   *)
(* the endpoint's cost from the tokens the bucket held after the refill    *)
(* step and has added exactly 1 to totalRequests and to requestsThisMonth, *)
(* whatever the cost; and availableTokens is >= 0 in every reachable       *)
(* state.                                                                  *)
(***************************************************************************)
TokensNonNegative ==
    \A u \in Users : HasBucket(u) => TokLE(TokInt(0), Bucket(u).available_tokens)

C7_AllowedStep(u) ==
    (IsCallFor(u) /\ last'.allowed) =>
        LET before == IF HasBucket(u)
                      THEN Bucket(u)
                      ELSE UserQuota(u, last'.call.user_tier,
                                     TokInt(get_minute_limit(last'.call.user_tier)), now)
            refilled == DocumentedRefill(before, now)
        IN /\ HasBucket(u)'
           /\ TokAdd(Bucket(u)'.available_tokens, CostTok(last'.call.cost)) = refilled.tokens
           /\ Bucket(u)'.total_requests = before.total_requests + 1
           /\ Bucket(u)'.month_requests = before.month_requests + 1

C7_AllowedHasConsumed ==
    /\ []TokensNonNegative
    /\ [][\A u \in Users : C7_AllowedStep(u)]_vars

\* An allowed call to an endpoint of cost 100.0 has emptied a Free bucket.
C7_Witness ==
    \E u \in Users :
        /\ HasBucket(u) /\ Bucket(u).tier = "free"
        /\ last.allowed /\ last.call.user_id = u /\ last.call.cost = Cost(200)
        /\ Bucket(u).available_tokens = TokInt(0)
        /\ Bucket(u).total_requests = 1 /\ Bucket(u).month_requests = 1

(***************************************************************************)
(* C3: a fresh identity on a tier with per-minute limit L, calling an      *)
(* endpoint of cost c > 0 less than 60 s after its bucket was created, is  *)
(* allowed exactly floor(L / c) times in a row and then rejected with      *)
(* rate_limit_exceeded: a call allowed as the n-th has n * c <= L, and the *)
(* rejected call is number floor(L / c) + 1.                               *)
(***************************************************************************)
C3_FloorOfLimit ==
    LET c == last.call.cost
        L == get_minute_limit(last.call.user_tier) * 60
        n == Bucket("user1").total_requests
    IN (last # NoCall /\ c > 0) =>
          /\ HasBucket("user1")
          /\ now - Bucket("user1").last_refill < 60
          /\ last.allowed => /\ n = metrics.total_requests
                             /\ n * c <= L
          /\ ~last.allowed => /\ last.error_type = "rate_limit_exceeded"
                              /\ metrics.total_requests = n + 1
                              /\ n * c <= L /\ L < (n + 1) * c

\* The 101st call of a Free identity at cost 1.0 is the first one rejected.
C3_Witness ==
    /\ last.error_type = "rate_limit_exceeded"
    /\ last.call.user_tier = "free" /\ last.call.cost = 60
    /\ metrics.total_requests = 101 /\ metrics.total_rejected = 1
    /\ Bucket("user1").total_requests = 100

(***************************************************************************)
(* C4: whenever the bucket of an identity has month_requests at or above   *)
(* the finite monthly quota of its tier, the next check_limit call for the *)
(* identity is rejected with monthly_quota_exceeded, whether or not the    *)
(* tokens would cover the cost, and the bucket is left as it was.          *)
(***************************************************************************)
C4_MonthlyStep(u) ==
    (/\ IsCallFor(u)
     /\ HasBucket(u)
     /\ HasFiniteQuota(Bucket(u).tier)
     /\ Bucket(u).month_requests >= FiniteMonthlyQuota(Bucket(u).tier))
    => /\ ~last'.allowed
       /\ last'.error_type = "monthly_quota_exceeded"
       /\ heap' = heap
       /\ user_quotas' = user_quotas

C4_MonthlyFirst == [][\A u \in Users : C4_MonthlyStep(u)]_vars

\* A call of cost 100.0 rejected for the month although 100 tokens are there.
C4_Witness ==
    /\ last.error_type = "monthly_quota_exceeded"
    /\ last.call.user_id = "user1" /\ last.call.cost = Cost(200)
    /\ TokGE(Bucket("user1").available_tokens, CostTok(last.call.cost))
    /\ Bucket("user1").month_requests = FreeMonthlyQuota

(***************************************************************************)
(* C5: calls without identity from one client IP at cost 1.0.  A call made *)
(* while no window exists, or more than 60 s after the window started, is  *)
(* allowed and starts a window (now, 1); a call within the window is       *)
(* allowed and counted while the window holds fewer than 30, and is        *)
(* rejected with rate_limit_exceeded once it holds 30.                     *)
(***************************************************************************)
C5_WindowStep(ip) ==
    (/\ IsCall
     /\ last'.call.user_id = NoUser
     /\ last'.call.client_ip = ip
     /\ last'.call.cost = Cost(2))
    => LET w == ip_quotas[ip]
       IN IF ~w.set \/ now - w.last_reset > IpWindowSeconds
          THEN last'.allowed /\ ip_quotas'[ip] = Window(now, 1)
          ELSE IF w.count < IpLimit
          THEN last'.allowed /\ ip_quotas'[ip] = Window(w.last_reset, w.count + 1)
          ELSE /\ last'.error_type = "rate_limit_exceeded"
               /\ ip_quotas'[ip] = w

C5_FixedWindow == [][\A ip \in Ips : C5_WindowStep(ip)]_vars

(***************************************************************************)
(* C8: every call answered 429 failed as rate_limit_exceeded, with         *)
(* retry_after 60 and reset_at 60 s after the call, or as                  *)
(* monthly_quota_exceeded, with retry_after 86400 and reset_at 30 days     *)
(* after the call; the Retry-After header of the response is that          *)
(* retry_after.                                                            *)
(***************************************************************************)
C8_TypedRejections ==
    /\ Rejected(last) <=>
          last.error_type \in {"rate_limit_exceeded", "monthly_quota_exceeded"}
    /\ last.error_type = "rate_limit_exceeded" =>
          /\ last.retry_after = 60
          /\ last.reset_at = last.call.at + 60
    /\ last.error_type = "monthly_quota_exceeded" =>
          /\ last.retry_after = 86400
          /\ last.reset_at = last.call.at + 30 * 86400
    /\ Rejected(last) => last.retry_after_header = last.retry_after

\* The month is over for "user1": 429 with Retry-After 86400.
C8_Witness ==
    /\ Rejected(last)
    /\ last.error_type = "monthly_quota_exceeded"
    /\ last.retry_after_header = 86400
    /\ last.call.at > 0

(***************************************************************************)
(* C9: a caller rejected with rate_limit_exceeded at time t who makes the  *)
(* next call, for the same key and endpoint, at t + 60 gets through,       *)
(* provided for an identity that its monthly quota is not reached and the  *)
(* cost is within the per-minute limit of its tier.                        *)
(***************************************************************************)
C9_RetryStep ==
    LET u == last.call.user_id
    IN (/\ IsCall
        /\ last.error_type = "rate_limit_exceeded"
        /\ last'.call.user_id = u
        /\ last'.call.client_ip = last.call.client_ip
        /\ last'.call.endpoint = last.call.endpoint
        /\ now = last.call.at + last.retry_after
        /\ u # NoUser =>
              /\ HasBucket(u)
              /\ HasFiniteQuota(Bucket(u).tier)
              /\ Bucket(u).month_requests < FiniteMonthlyQuota(Bucket(u).tier)
              /\ TokLE(CostTok(last'.call.cost),
                       TokInt(FiniteMinuteLimit(Bucket(u).tier))))
       => Admitted(last')

C9_RetryAfterInterval == [][C9_RetryStep]_vars

(***************************************************************************)
(* C10: a check_limit call for an endpoint registered with cost 0 is       *)
(* allowed in every reachable state.                                       *)
(***************************************************************************)
C10_ZeroCostAllowed ==
    (last # NoCall /\ last.call.cost = Cost(0)) => last.allowed

\* The zero-cost calls of SpecFresh bring "user1" to the end of its month:
\* the state SpecMonth starts in.
C10_MonthEndReached == InitMonth

(***************************************************************************)
(* C1: N check_limit calls for one identity and endpoint that run          *)
(* concurrently on a bucket holding cost * k tokens, k < N, with no refill *)
(* due: when all have returned, exactly k were allowed and N - k rejected  *)
(* with rate_limit_exceeded, the bucket holds 0 tokens and its two request *)
(* counters have grown by exactly k.  (k is what the last call before the  *)
(* threads reported as remaining; the bucket had counted 100 - k calls.)   *)
(***************************************************************************)
AllDone == \A w \in Workers : wk[w].pc = "done"
Outcomes(outcome) == Cardinality({w \in Workers : wk[w].outcome = outcome})

C1_NoDoubleSpend ==
    AllDone =>
       LET k == last.remaining
           before == FreeMinuteLimit - k
       IN /\ Outcomes("allowed") = k
          /\ Outcomes("rate_limit_exceeded") = NumWorkers - k
          /\ Bucket("user1").available_tokens = TokInt(0)
          /\ Bucket("user1").total_requests = before + k
          /\ Bucket("user1").month_requests = before + k

(***************************************************************************)
(* C11: metrics of sequential calls.  Every check_limit step adds 1 to     *)
(* total_requests, adds 1 to total_rejected exactly when the call is       *)
(* rejected, adds 1 to cache_hits + cache_misses exactly when the call     *)
(* carries an identity, the miss exactly when the bucket is created by the *)
(* call, and no other step changes a counter; so after M calls with R      *)
(* rejections the counters are M and R, and get_metrics reports the        *)
(* rejection rate R / M, 0 when M = 0.                                     *)
(***************************************************************************)
\* This step is the check_limit call that last' records.
CheckLimitStep ==
    /\ last'.call.endpoint \in EndpointNames
    /\ check_limit(last'.call.user_id, last'.call.user_tier,
                   last'.call.endpoint, last'.call.client_ip)

Plus(flag) == IF flag THEN 1 ELSE 0

C11_CallCounts ==
    LET u == last'.call.user_id
    IN CheckLimitStep =>
          /\ metrics'.total_requests = metrics.total_requests + 1
          /\ metrics'.total_rejected = metrics.total_rejected + Plus(Rejected(last'))
          /\ metrics'.cache_hits + metrics'.cache_misses =
                metrics.cache_hits + metrics.cache_misses + Plus(u # NoUser)
          /\ metrics'.cache_misses =
                metrics.cache_misses + Plus(u # NoUser /\ ~HasBucket(u))
          /\ u = NoUser => /\ metrics'.cache_hits = metrics.cache_hits
                           /\ metrics'.cache_misses = metrics.cache_misses

C11_RateReported ==
    LET M == metrics.total_requests
        R == metrics.total_rejected
        rate == get_metrics.rejection_rate
    IN /\ get_metrics.total_requests = M /\ get_metrics.total_rejected = R
       /\ R <= M /\ metrics.cache_hits + metrics.cache_misses <= M
       /\ IF M = 0 THEN rate.num = 0 ELSE rate.num * M = R * rate.den

C11_MetricsAccounting ==
    /\ []C11_RateReported
    /\ [][C11_CallCounts /\ (metrics' # metrics => CheckLimitStep)]_vars

\* Two calls of one new identity, the second rejected: 1 miss, 1 hit, rate 1/2.
C11_Witness ==
    /\ metrics = [total_requests |-> 2, total_rejected |-> 1,
                  cache_hits |-> 1, cache_misses |-> 1]
    /\ get_metrics.rejection_rate = Quotient(1, 2)
    /\ Rejected(last) /\ last.call.user_id = "user1"

(***************************************************************************)
(* C12: the metrics counters are atomic.  When the N worker threads have   *)
(* all returned and R of their calls were rejected, total_requests has     *)
(* grown by exactly N and total_rejected by exactly R.  (Before the        *)
(* threads, 100 - k calls were made and none rejected, k being what the    *)
(* last of them reported as remaining.)                                    *)
(***************************************************************************)
C12_NoLostIncrement ==
    AllDone =>
       LET before == FreeMinuteLimit - last.remaining
           R == Outcomes("rate_limit_exceeded") + Outcomes("monthly_quota_exceeded")
       IN /\ metrics.total_requests = before + NumWorkers
          /\ metrics.total_rejected = R

(***************************************************************************)
(* C13: clear_user_quota(id) leaves the store without a bucket for id and  *)
(* leaves the bucket of every other identity, every IP window and the four *)
(* metrics counters as they were; for an identity without bucket it        *)
(* changes nothing.                                                        *)
(***************************************************************************)
SameBucket(v) ==
    /\ user_quotas'[v] = user_quotas[v]
    /\ HasBucket(v) => Bucket(v)' = Bucket(v)

C13_ClearStep(u) ==
    clear_user_quota(u) =>
       /\ ~HasBucket(u)'
       /\ \A v \in Users \ {u} : SameBucket(v)
       /\ ip_quotas' = ip_quotas
       /\ metrics' = metrics
       /\ ~HasBucket(u) => UNCHANGED vars

C13_AdministrativeReset == [][\A u \in Users : C13_ClearStep(u)]_vars

\* "user1" was reset after both identities had called; "user2" keeps its bucket.
C13_Witness ==
    /\ ~HasBucket("user1") /\ HasBucket("user2")
    /\ metrics.cache_misses = 2
    /\ Bucket("user2").total_requests = 1

(***************************************************************************)
(* C15: no identity has a bucket at start; a bucket appears only by a      *)
(* check_limit call carrying the identity, which creates it with           *)
(* perMinuteLimit(tier of the call) tokens, lastRefill = now and both      *)
(* counters 0 and then consumes if the call is allowed; after every such   *)
(* call the bucket exists; and it disappears only by clear_user_quota for  *)
(* that identity, never by time or by a call for another key.              *)
(***************************************************************************)
StatedMinuteLimit(tier) ==
    IF HasFiniteQuota(tier) THEN FiniteMinuteLimit(tier) ELSE UnlimitedSentinel

C15_BucketStep(u) ==
    LET mine == CheckLimitStep /\ last'.call.user_id = u
        taken == IF last'.allowed THEN CostTok(last'.call.cost) ELSE TokInt(0)
    IN /\ (~HasBucket(u) /\ HasBucket(u)') =>
             /\ mine
             /\ Bucket(u)'.user_id = u
             /\ Bucket(u)'.tier = last'.call.user_tier
             /\ TokAdd(Bucket(u)'.available_tokens, taken) =
                   TokInt(StatedMinuteLimit(last'.call.user_tier))
             /\ Bucket(u)'.last_refill = now
             /\ Bucket(u)'.total_requests = Plus(last'.allowed)
             /\ Bucket(u)'.month_requests = Plus(last'.allowed)
       /\ mine => HasBucket(u)'
       /\ (HasBucket(u) /\ ~HasBucket(u)') => clear_user_quota(u)

C15_LazyCreation ==
    /\ \A u \in Users : ~HasBucket(u)
    /\ [][\A u \in Users : C15_BucketStep(u)]_vars

\* "user1" was reset and came back later as Enterprise: a new bucket, made at
\* that time, and still there after time has passed.
C15_Witness ==
    /\ HasBucket("user1")
    /\ Bucket("user1").tier = "enterprise"
    /\ Bucket("user1").total_requests = 1
    /\ metrics.cache_misses = 2
    /\ Bucket("user1").last_refill > 0
    /\ now > Bucket("user1").last_refill

(***************************************************************************)
(* C16: a check_limit call for identity A leaves the bucket of every other *)
(* identity and every IP window as they were; a call without identity from *)
(* client IP p leaves every bucket and the window of every other IP as     *)
(* they were.                                                              *)
(***************************************************************************)
C16_CallStep ==
    LET a == last'.call.user_id
        p == last'.call.client_ip
    IN CheckLimitStep =>
          IF a # NoUser
          THEN /\ \A b \in Users \ {a} : SameBucket(b)
               /\ ip_quotas' = ip_quotas
          ELSE /\ heap' = heap
               /\ user_quotas' = user_quotas
               /\ \A q \in Ips \ {p} : ip_quotas'[q] = ip_quotas[q]

C16_Independent == [][C16_CallStep]_vars

\* Both client IPs have a window of their own, opened at different times.
C16_Witness ==
    /\ ip_quotas["192.168.1.1"].set /\ ip_quotas["192.168.1.2"].set
    /\ ip_quotas["192.168.1.1"].last_reset # ip_quotas["192.168.1.2"].last_reset
    /\ last.call.user_id = NoUser /\ last.call.client_ip = "192.168.1.2"

(***************************************************************************)
(* C17: a check_limit call with neither identity nor client IP is allowed  *)
(* in every state; it creates no bucket and no IP window and changes       *)
(* nothing but total_requests.                                             *)
(***************************************************************************)
C17_AnonymousStep ==
    (CheckLimitStep /\ last'.call.user_id = NoUser /\ last'.call.client_ip = NoIp) =>
       /\ last'.allowed
       /\ heap' = heap /\ user_quotas' = user_quotas /\ ip_quotas' = ip_quotas
       /\ metrics' = [metrics EXCEPT !.total_requests = @ + 1]

C17_AnonymousAllowed == [][C17_AnonymousStep]_vars

(***************************************************************************)
(* C14: when clear_user_quota(id) runs concurrently with a check_limit     *)
(* call for id, the decrement of an allowed call is never applied to a     *)
(* bucket object that is no longer in the store, and a call that has       *)
(* returned allowed while the store holds a bucket for id has consumed     *)
(* from that bucket.                                                       *)
(***************************************************************************)
InStore(w) == user_quotas[wk[w].call.user_id] = wk[w].ref

C14_ConsumeStep(w) ==
    (wk[w].pc = "consume_write" /\ wk'[w].pc = "total") => InStore(w)

C14_Returned(w) ==
    (wk[w].pc = "done" /\ wk[w].outcome = "allowed"
        /\ HasBucket(wk[w].call.user_id)) => InStore(w)

C14_ResetSerialized ==
    /\ [](\A w \in Workers : C14_Returned(w))
    /\ [][\A w \in Workers : C14_ConsumeStep(w)]_vars

(***************************************************************************)
(* C18: persistence never affects the decision path.  Whatever             *)
(* redis_enabled is and whether the persistence write can be scheduled, a  *)
(* check_limit call with an identity ends allowed or with one of the two   *)
(* typed rate-limit failures, and it is allowed exactly when the bucket    *)
(* has room for it, as without persistence.                                *)
(***************************************************************************)
C18_DecisionStep ==
    (CheckLimitStep /\ last'.call.user_id # NoUser) =>
       LET u == last'.call.user_id
           room == IF HasBucket(u)
                   THEN /\ check_monthly_quota(Bucket(u))
                        /\ check_minute_limit(Bucket(u), last'.call.cost).ok
                   ELSE TRUE
       IN /\ last'.allowed \/ Rejected(last')
          /\ last'.allowed = room

C18_PersistenceIsBestEffort == [][C18_DecisionStep]_vars

(***************************************************************************)
(* C19: a request for /health, /metrics, /docs, /redoc or /openapi.json is *)
(* passed on by RateLimitMiddleware without a check_limit call: every      *)
(* bucket, every IP window and every metrics counter stays as it was, and  *)
(* the answer is not 429.                                                  *)
(***************************************************************************)
DocumentedExempt == {"/health", "/metrics", "/docs", "/redoc", "/openapi.json"}

C19_ExemptStep(path) ==
    (\E r \in Clients : dispatch(path, r[1], r[2], r[3])) =>
       /\ heap' = heap /\ user_quotas' = user_quotas
       /\ ip_quotas' = ip_quotas
       /\ metrics' = metrics
       /\ last'.call.endpoint = path
       /\ ~Rejected(last')

C19_ExemptBypass == [][\A path \in DocumentedExempt : C19_ExemptStep(path)]_vars

\* "user1" is out of tokens and its request for "/metrics" is answered.
C19_Witness ==
    /\ last.call.endpoint = "/metrics" /\ last.call.user_id = "user1"
    /\ last.status_code = HttpOk
    /\ metrics.total_requests = MaxCalls /\ metrics.total_rejected = 1

(***************************************************************************)
(* C20: an allowed check_limit call with an identity returns remaining =   *)
(* floor of the tokens left after the decrement, reset_at = now + 60, the  *)
(* tier of the call, and monthly_remaining = the monthly quota of that     *)
(* tier minus the month's requests after the increment (999,999,999 for a  *)
(* tier with unlimited quota); remaining and monthly_remaining are never   *)
(* negative.                                                               *)
(***************************************************************************)
C20_AllowedResult ==
    (CheckLimitStep /\ last'.call.user_id # NoUser /\ last'.allowed) =>
       LET tier == last'.call.user_tier
           left == heap'[user_quotas'[last'.call.user_id]]
       IN /\ last'.remaining = left.available_tokens.w
          /\ last'.reset_at = now + ResetSeconds
          /\ last'.tier = tier
          /\ last'.monthly_remaining =
                IF HasFiniteQuota(tier)
                THEN FiniteMonthlyQuota(tier) - left.month_requests
                ELSE UnlimitedSentinel
          /\ last'.remaining >= 0
          /\ last'.monthly_remaining >= 0

C20_ResultFields == [][C20_AllowedResult]_vars

(***************************************************************************)
(* C21: a check_limit call whose tier argument is Enterprise or Partner is *)
(* allowed in every reachable state, whatever calls were made before for   *)
(* the same identity.                                                      *)
(***************************************************************************)
C21_UnlimitedStep ==
    (CheckLimitStep /\ last'.call.user_id # NoUser
        /\ last'.call.user_tier \in {"enterprise", "partner"}) => last'.allowed

C21_UnlimitedNeverRejected == [][C21_UnlimitedStep]_vars

(***************************************************************************)
(* C22: month_requests and total_requests of an existing bucket never      *)
(* decrease, under any call or passage of time, and once an identity has   *)
(* been rejected with monthly_quota_exceeded every later call for it is    *)
(* rejected with monthly_quota_exceeded, however much time passes, until   *)
(* clear_user_quota removes the bucket.                                    *)
(***************************************************************************)
C22_CountersStep(u) ==
    (HasBucket(u) /\ HasBucket(u)') =>
       /\ user_quotas'[u] = user_quotas[u]
       /\ Bucket(u)'.month_requests >= Bucket(u).month_requests
       /\ Bucket(u)'.total_requests >= Bucket(u).total_requests

C22_StuckStep(u) ==
    (/\ last.call.user_id = u /\ last.error_type = "monthly_quota_exceeded"
     /\ HasBucket(u)
     /\ CheckLimitStep /\ last'.call.user_id = u) =>
       last'.error_type = "monthly_quota_exceeded"

C23_RouteStep(u) ==
    /\ get_user_quota(u) =>
          IF HasBucket(u)
          THEN reply'.status_code = HttpOk /\ reply'.quota = Bucket(u)
          ELSE reply'.status_code = HttpNotFound
    /\ reset_user_quota(u) => ~HasBucket(u)'

C23_RoutesShareService == [][\A u \in Users : C23_RouteStep(u)]_vars

(***************************************************************************)
(* C24: once startup has completed, the RateLimitMiddleware consults the   *)
(* service that lifespan created and registered the endpoint costs with:   *)
(* an allowed request with an API key takes 2.0 tokens from the caller's   *)
(* bucket for /compare and 1.0 for /identify.                              *)
(***************************************************************************)
ConfiguredCost(path) == IF path = "/compare" THEN Cost(4) ELSE Cost(2)

C24_StartedStep ==
    (/\ app.rate_limit_service # NoService
     /\ CheckLimitStep /\ last'.call.user_id # NoUser /\ last'.allowed) =>
       LET u == last'.call.user_id
           before == IF HasBucket(u)
                     THEN refill_tokens(Bucket(u), now).available_tokens
                     ELSE TokInt(StatedMinuteLimit(last'.call.user_tier))
       IN /\ app.middleware = app.rate_limit_service
          /\ heap'[user_quotas'[u]].available_tokens =
                TokSub(before, CostTok(ConfiguredCost(last'.call.endpoint)))

C24_ConfiguredCostsApply == [][C24_StartedStep]_vars

(***************************************************************************)
(* C25: refill is the first step of a check_limit call, before the monthly *)
(* check: after any call for an existing identity made at least 60 s after *)
(* the bucket's last refill, be it allowed, rejected with                  *)
(* rate_limit_exceeded or rejected with monthly_quota_exceeded, the        *)
(* bucket's last_refill is the time of the call and its tokens have been   *)
(* refilled.                                                               *)
(***************************************************************************)
C25_RefillStep ==
    LET u == last'.call.user_id
    IN (/\ CheckLimitStep /\ u # NoUser /\ HasBucket(u)
        /\ now - Bucket(u).last_refill >= RefillSeconds) =>
          LET refilled == DocumentedRefill(Bucket(u), now)
              taken == IF last'.allowed THEN CostTok(last'.call.cost) ELSE TokInt(0)
          IN /\ heap'[user_quotas'[u]].last_refill = now
             /\ heap'[user_quotas'[u]].available_tokens =
                   TokSub(refilled.tokens, taken)

C25_RefillFirst == [][C25_RefillStep]_vars

(***************************************************************************)
(* Callers without identity behind one client IP on "/identify", whose     *)
(* cost is registered as 0.5 or 1.5 (any float is accepted), MaxKeyCalls   *)
(* calls in all, while time passes.                                        *)
(***************************************************************************)
FractionCosts == {Cost(1), Cost(3)}

NextIpCost ==
    \/ \E cost \in FractionCosts : register_endpoint("/identify", cost)
    \/ /\ metrics.total_requests < MaxKeyCalls
       /\ check_limit(NoUser, "free", "/identify", "192.168.1.1")
    \/ \E seconds \in TickSteps : advance_time(seconds)

SpecIpCost == Init /\ [][NextIpCost]_vars

\* The count of the window of ip equals the amount (in 60ths of a request).
C26_CountIs(window, amount) == window.count * MinuteDiv = amount

\* C26: IP window arithmetic uses the endpoint's cost.  An unauthenticated
\* call with cost c from an IP whose window is active (at most 60 s old) is
\* rejected exactly when count + c > 30 and otherwise adds exactly c to
\* count; a call that creates the window or finds it expired leaves a window
\* started at the call with count = c.  This is to hold for fractional costs
\* such as 0.5 and 1.5.
C26_WindowStep ==
    LET ip == last'.call.client_ip
        c == last'.call.cost
        old == ip_quotas[ip]
        new == ip_quotas'[ip]
    IN (CheckLimitStep /\ last'.call.user_id = NoUser /\ ip # NoIp) =>
          IF old.set /\ now - old.last_reset <= IpWindowSeconds
          THEN /\ Rejected(last') <=> old.count * MinuteDiv + c > IpLimit * MinuteDiv
               /\ ~Rejected(last') =>
                     /\ new.last_reset = old.last_reset
                     /\ C26_CountIs(new, old.count * MinuteDiv + c)
          ELSE /\ ~Rejected(last')
               /\ new.set /\ new.last_reset = now
               /\ C26_CountIs(new, c)

C26_IpWindowUsesCost == [][C26_WindowStep]_vars

(***************************************************************************)
(* Bursts of one Free identity.  "user1" calls "/compare", whose cost is   *)
(* registered as 0.0 or 100.0, MaxMonthCalls times in all, as time passes. *)
(***************************************************************************)
BurstCosts == {Cost(0), Cost(200)}

NextBurst ==
    \/ \E cost \in BurstCosts : register_endpoint("/compare", cost)
    \/ /\ metrics.total_requests < MaxMonthCalls
       /\ check_limit("user1", "free", "/compare", NoIp)
    \/ \E seconds \in TickSteps : advance_time(seconds)

SpecBurst == Init /\ [][NextBurst]_vars

\* C27: the maximum burst is 150% of the per-minute limit: within every
\* interval of 60 seconds the calls allowed for an identity on a tier with
\* finite per-minute limit L cost at most 1.5 * L in total.  Checked on the
\* shortest such interval that holds two calls: when a call of the identity
\* is allowed less than 60 s after its previous allowed call, under the same
\* tier, the two costs together are at most 1.5 * L.
C27_BurstStep ==
    LET u == last'.call.user_id
        tier == last'.call.user_tier
    IN (/\ CheckLimitStep /\ u # NoUser /\ HasBucket(u)
        /\ last.allowed /\ last.call.user_id = u
        /\ last'.allowed
        /\ HasFiniteQuota(tier)
        /\ last.call.user_tier = tier /\ Bucket(u).tier = tier
        /\ last.call.cost >= 0 /\ last'.call.cost >= 0
        /\ last'.call.at - last.call.at < RefillSeconds) =>
          BurstDen * (last.call.cost + last'.call.cost) <=
             BurstNum * FiniteMinuteLimit(tier) * MinuteDiv

C27_MaximumBurst == [][C27_BurstStep]_vars

\* C28: the remaining field of an allowed result is what is still available
\* in the current minute for the key that was charged.  An unauthenticated
\* call that the IP window admits returns allowed with remaining = 30 minus
\* the window's count after the call, so remaining falls as the IP goes on
\* calling within the window and is 0 on the call that fills it.
C28_RemainingStep ==
    LET ip == last'.call.client_ip
    IN (CheckLimitStep /\ last'.call.user_id = NoUser /\ ip # NoIp
          /\ ~Rejected(last')) =>
            /\ last'.allowed
            /\ last'.remaining = IpLimit - ip_quotas'[ip].count

C28_RemainingOfChargedKey == [][C28_RemainingStep]_vars

\* monthly_remaining as the result reports it for a call made under tier,
\* given the bucket's month_requests after the call.
C29_ReportedMonthlyRemaining(tier, month_requests) ==
    IF HasFiniteQuota(tier)
    THEN Max0(FiniteMonthlyQuota(tier) - month_requests)
    ELSE UnlimitedSentinel

\* C29: a bucket's tier is fixed at creation.  A stored bucket keeps its
\* tier in every step; a call that creates the bucket gives it the call's
\* tier and that tier's initial tokens; a later call is rejected for the
\* monthly quota exactly when the bucket's month_requests has reached the
\* quota of the bucket's tier, and otherwise refills with the limit and
\* ceiling of the bucket's tier; the call's own tier argument shows only in
\* the tier and monthly_remaining of the result.
C29_TierStep(u) ==
    LET mine == CheckLimitStep /\ last'.call.user_id = u
        tier == last'.call.user_tier
        taken == IF last'.allowed THEN CostTok(last'.call.cost) ELSE TokInt(0)
        after == heap'[user_quotas'[u]]
    IN /\ (HasBucket(u) /\ HasBucket(u)' /\ user_quotas'[u] = user_quotas[u]) =>
             after.tier = Bucket(u).tier
       /\ (mine /\ ~HasBucket(u)) =>
             /\ after.tier = tier
             /\ after.available_tokens = TokSub(TokInt(StatedMinuteLimit(tier)), taken)
       /\ (mine /\ HasBucket(u)) =>
             LET stored == Bucket(u).tier
                 full == /\ HasFiniteQuota(stored)
                         /\ Bucket(u).month_requests >= FiniteMonthlyQuota(stored)
             IN /\ last'.error_type = "monthly_quota_exceeded" <=> full
                /\ ~full => after.available_tokens =
                               TokSub(DocumentedRefill(Bucket(u), now).tokens, taken)
       /\ (mine /\ last'.allowed) =>
             /\ last'.tier = tier
             /\ last'.monthly_remaining =
                   C29_ReportedMonthlyRemaining(tier, after.month_requests)

C29_TierFixedAtCreation == [][\A u \in Users : C29_TierStep(u)]_vars

\* A bucket created as Free has just been refilled by an allowed call made
\* as Pro: the result names Pro, the bucket is still Free.
C29_Witness ==
    /\ last.allowed /\ last.call.user_id = "user1" /\ last.call.user_tier = "pro"
    /\ last.tier = "pro"
    /\ HasBucket("user1") /\ Bucket("user1").tier = "free"
    /\ last.call.at >= RefillSeconds
    /\ Bucket("user1").last_refill = last.call.at

(***************************************************************************)
(* Rejections.  "user1" (Free) calls "/compare", whose cost is registered  *)
(* as -1.0 or 200.0 (register_endpoint accepts any float), MaxMonthCalls   *)
(* times in all, as time passes.                                           *)
(***************************************************************************)
RejectCosts == {Cost(-2), Cost(400)}

NextReject ==
    \/ \E cost \in RejectCosts : register_endpoint("/compare", cost)
    \/ /\ metrics.total_requests < MaxMonthCalls
       /\ check_limit("user1", "free", "/compare", NoIp)
    \/ \E seconds \in TickSteps : advance_time(seconds)

SpecReject == Init /\ [][NextReject]_vars

\* What a rejected call may do to the bucket of u.
C30_BucketStep(u) ==
    IF last'.call.user_id # u
    THEN /\ user_quotas'[u] = user_quotas[u]
         /\ HasBucket(u) => heap'[user_quotas'[u]] = Bucket(u)
    ELSE IF ~HasBucket(u)
    THEN /\ HasBucket(u)'
         /\ heap'[user_quotas'[u]] =
               UserQuota(u, last'.call.user_tier,
                         TokInt(StatedMinuteLimit(last'.call.user_tier)), now)
    ELSE LET before == Bucket(u)
             after == heap'[user_quotas'[u]]
             refilled == DocumentedRefill(before, now)
         IN /\ user_quotas'[u] = user_quotas[u]
            /\ after.total_requests = before.total_requests
            /\ after.month_requests = before.month_requests
            /\ after.tier = before.tier
            /\ TokLE(before.available_tokens, after.available_tokens)
            /\ IF last'.error_type = "rate_limit_exceeded"
                  /\ now - before.last_refill >= RefillSeconds
               THEN /\ after.available_tokens = refilled.tokens
                    /\ after.last_refill = now
               ELSE /\ after.available_tokens = before.available_tokens
                    /\ after.last_refill = before.last_refill

\* C30: a rejected check_limit call charges nothing.  It never decrements
\* available_tokens and never changes total_requests or month_requests of
\* any bucket, nor any IP window; it changes only the counters
\* total_requests and total_rejected (each + 1), one of the cache counters,
\* a bucket created by a first call, and tokens/last_refill by the refill
\* when a rate_limit_exceeded rejection comes 60 s or more after last_refill.
C30_RejectedStep ==
    (CheckLimitStep /\ Rejected(last')) =>
        /\ ip_quotas' = ip_quotas
        /\ UNCHANGED <<now, endpoints, redis>>
        /\ metrics'.total_requests = metrics.total_requests + 1
        /\ metrics'.total_rejected = metrics.total_rejected + 1
        /\ metrics'.cache_hits + metrics'.cache_misses =
              metrics.cache_hits + metrics.cache_misses
                 + Plus(last'.call.user_id # NoUser)
        /\ metrics'.cache_hits >= metrics.cache_hits
        /\ metrics'.cache_misses >= metrics.cache_misses
        /\ \A u \in Users : C30_BucketStep(u)

C30_RejectedChargesNothing == [][C30_RejectedStep]_vars

====
